---- MODULE Spec2Model ----
\* A model of src/assignment.js: the pipeline simulatePSBT that fetches the
\* wallet's UTXOs, selects one, builds, signs and finalizes a one-input
\* transaction and posts it to the relay.
EXTENDS Integers, Sequences, FiniteSets, TLC

VARIABLES pc, keyPair, address, utxos, utxo, utxoTxHex, psbt, txHex, txid,
          requests, error, report

vars == <<pc, keyPair, address, utxos, utxo, utxoTxHex, psbt, txHex, txid,
          requests, error, report>>

\* ------------------------------------------------------------------ bounds
\* Longest UTXO array the indexing service answers with.
MaxUtxos == 2

\* --------------------------------------------------------------- constants
AMOUNT_TO_SEND == 1000
FEE == 200
DESTINATION_ADDRESS == [hrp |-> "tb", version |-> 0,
                        program |-> <<"hash160", <<"pub", "lj64u6fqutr0xue85kl55fx0gt4m4urun25p7q">>>>]
WALLET == [privateKey |-> "cTGAe5L4f2yUUFf1dfc4cbu8dWSmwDv2Yy6Hys4LvqMwmXqEAw9T",
           address |-> "tb1qt5j5snh3nt5d6udhekupyrp6rqdnpwmyedjy9s"]
network == "tb"

\* ------------------------------------------------- what the services answer
Txids == {"txA", "txB"}
Vouts == {0, 1}
UtxoValues == {AMOUNT_TO_SEND, AMOUNT_TO_SEND + FEE - 1, AMOUNT_TO_SEND + FEE,
               AMOUNT_TO_SEND + FEE + 1, 5000}
UtxoRecords == [txid : Txids, vout : Vouts, value : UtxoValues, status : {"confirmed"}]
UtxoArrays == UNION {[1..n -> UtxoRecords] : n \in 0..MaxUtxos}
RawHexes == {"rawHexA", "rawHexB"}
RelayTxids == {"txidR"}
RejectReasons == {"insufficient fee", "bad-txns-inputs-missingorspent"}
TransportCodes == {"Network Error", "timeout exceeded"}

\* The replies axios can settle a request with: a 2xx answer with its data,
\* a non-2xx answer (status and body), or no answer at all.
OkReply(d) == [kind |-> "ok", status |-> 200, data |-> d, code |-> ""]
HttpReply(s, d) == [kind |-> "http", status |-> s, data |-> d, code |-> ""]
TransportReply(c) == [kind |-> "transport", status |-> 0, data |-> "", code |-> c]

UtxoReplies == {OkReply(a) : a \in UtxoArrays}
               \cup {HttpReply(500, "Internal Server Error")}
               \cup {TransportReply(c) : c \in TransportCodes}
HexReplies == {OkReply(h) : h \in RawHexes}
              \cup {HttpReply(404, "Transaction not found")}
              \cup {TransportReply(c) : c \in TransportCodes}
RelayReplies == {OkReply(t) : t \in RelayTxids}
                \cup {HttpReply(400, r) : r \in RejectReasons}
                \cup {TransportReply(c) : c \in TransportCodes}

\* ------------------------------------------------------------------ errors
NoResponse == [present |-> FALSE, status |-> 0, data |-> ""]
NoError == [message |-> <<>>, response |-> NoResponse]

\* The error axios rejects with: its message names the status only; the body
\* of a non-2xx answer is on error.response.
AxiosError(reply) ==
    IF reply.kind = "http"
    THEN [message |-> <<"Request failed with status code", ToString(reply.status)>>,
          response |-> [present |-> TRUE, status |-> reply.status, data |-> reply.data]]
    ELSE [message |-> <<reply.code>>, response |-> NoResponse]

\* new Error(`${prefix}: ${inner.message}`): a fresh Error, message only.
WrapError(prefix, inner) ==
    [message |-> <<prefix>> \o inner.message, response |-> NoResponse]

NewError(text) == [message |-> <<text>>, response |-> NoResponse]

ErrNoUtxos == NewError("No UTXOs found for this address")
ErrInsufficient == NewError("No UTXO with sufficient balance found. Need at least 1200 satoshis.")
ErrNotEnough == NewError("Input amount is not enough to cover the transaction and fee.")
ErrSign == NewError("Can not sign for this input with the key")
ErrFinalize == NewError("No script found for input")
ErrNotFinalized == NewError("Not finalized")

\* The catch block of simulatePSBT: status and data when the error has a
\* response, the message otherwise.
Report(e) ==
    IF e.response.present
    THEN [message |-> e.message, shown |-> "response",
          status |-> e.response.status, data |-> e.response.data]
    ELSE [message |-> e.message, shown |-> "message", status |-> 0, data |-> ""]

NoReport == [message |-> <<>>, shown |-> "nothing", status |-> 0, data |-> ""]

\* -------------------------------------------------------------------- keys
NoKeyPair == [privateKey |-> "", publicKey |-> <<>>, network |-> ""]
FromWIF(wif, net) == [privateKey |-> wif, publicKey |-> <<"pub", wif>>, network |-> net]

P2wpkh(pubkey, net) ==
    [address |-> [hrp |-> net, version |-> 0, program |-> <<"hash160", pubkey>>],
     output |-> <<"OP_0", <<"hash160", pubkey>>>>]

NoAddress == [hrp |-> "", version |-> 0, program |-> <<>>]

\* address.toOutputScript: the locking script an address stands for.
ToOutputScript(addr) == <<"OP_0", addr.program>>

\* ------------------------------------------------------------ the gateway
Request(method, url, body, reply) ==
    [method |-> method, url |-> url, body |-> body, reply |-> reply]

UtxoUrl(addr) == <<"address", addr, "utxo">>
HexUrl(id) == <<"tx", id, "hex">>
RelayUrl == <<"tx">>

Returned(v) == [ok |-> TRUE, value |-> v, err |-> NoError]
Thrown(e, none) == [ok |-> FALSE, value |-> none, err |-> e]

\* data.map(utxo => ({txid, vout, value, status}))
MapUtxos(data) ==
    [i \in 1..Len(data) |->
        [txid |-> data[i].txid, vout |-> data[i].vout,
         value |-> data[i].value, status |-> data[i].status]]

\* The empty array is returned like any other.
getUTXOsNoEmptyCheck(reply) ==
    IF reply.kind = "ok"
    THEN Returned(MapUtxos(reply.data))
    ELSE Thrown(WrapError("Failed to fetch UTXOs", AxiosError(reply)), <<>>)

\* getUTXOs: the throw for an empty array is inside the try, so the catch
\* wraps it like any failure of the request.
getUTXOs(reply) ==
    IF reply.kind = "ok"
    THEN IF Len(reply.data) = 0
         THEN Thrown(WrapError("Failed to fetch UTXOs", ErrNoUtxos), <<>>)
         ELSE Returned(MapUtxos(reply.data))
    ELSE Thrown(WrapError("Failed to fetch UTXOs", AxiosError(reply)), <<>>)

getTransactionHex(reply) ==
    IF reply.kind = "ok"
    THEN Returned(reply.data)
    ELSE Thrown(WrapError("Failed to fetch transaction hex for UTXO", AxiosError(reply)), "")

broadcastTransaction(reply) ==
    IF reply.kind = "ok"
    THEN Returned(reply.data)
    ELSE Thrown(WrapError("Failed to broadcast transaction", AxiosError(reply)), "")

\* --------------------------------------------------------- coin selection
Undefined == [txid |-> "", vout |-> 0, value |-> 0, status |-> ""]

\* The fee left out of the selection threshold.
QualifiesNoFee(u) == u.value >= AMOUNT_TO_SEND

Qualifies(u) == u.value >= AMOUNT_TO_SEND + FEE

\* The last qualifying element instead of the first.
FindLast(seq) ==
    IF \E i \in 1..Len(seq) : Qualifies(seq[i])
    THEN seq[CHOOSE i \in 1..Len(seq) :
                /\ Qualifies(seq[i])
                /\ \A j \in (i + 1)..Len(seq) : ~Qualifies(seq[j])]
    ELSE Undefined

\* utxos.find(u => u.value >= AMOUNT_TO_SEND + FEE)
Find(seq) ==
    IF \E i \in 1..Len(seq) : Qualifies(seq[i])
    THEN seq[CHOOSE i \in 1..Len(seq) :
                /\ Qualifies(seq[i])
                /\ \A j \in 1..(i - 1) : ~Qualifies(seq[j])]
    ELSE Undefined

\* ---------------------------------------------------------------- the psbt
NoSig == [present |-> FALSE, pubkey |-> <<>>, signature |-> <<>>]
NewPsbt == [inputs |-> <<>>, outputs |-> <<>>]

AddInput(p, hash, index, script, value) ==
    [p EXCEPT !.inputs = Append(@,
        [hash |-> hash, index |-> index,
         witnessUtxo |-> [script |-> script, value |-> value],
         partialSig |-> NoSig, finalScriptWitness |-> <<>>])]

AddOutput(p, addr, value) ==
    [p EXCEPT !.outputs = Append(@, [address |-> addr, value |-> value])]

\* The segwit v0 signature hash of input i commits to every prevout, to the
\* spent output's script and value, and to every output.
SigHash(p, i) ==
    <<[k \in 1..Len(p.inputs) |-> <<p.inputs[k].hash, p.inputs[k].index>>],
      p.inputs[i].witnessUtxo.script, p.inputs[i].witnessUtxo.value,
      [k \in 1..Len(p.outputs) |->
          <<ToOutputScript(p.outputs[k].address), p.outputs[k].value>>]>>

\* signInput(i, kp) throws unless input i exists and its script is kp's.
CanSign(p, i, kp) ==
    /\ i \in 1..Len(p.inputs)
    /\ p.inputs[i].witnessUtxo.script = P2wpkh(kp.publicKey, kp.network).output

SignInput(p, i, kp) ==
    [p EXCEPT !.inputs[i].partialSig =
        [present |-> TRUE, pubkey |-> kp.publicKey,
         signature |-> <<"sig", kp.privateKey, SigHash(p, i)>>]]

\* finalizeAllInputs throws when there is no input or one is unsigned.
CanFinalize(p) ==
    /\ Len(p.inputs) > 0
    /\ \A i \in 1..Len(p.inputs) : p.inputs[i].partialSig.present

FinalizeAllInputs(p) ==
    [p EXCEPT !.inputs =
        [i \in 1..Len(p.inputs) |->
            [p.inputs[i] EXCEPT
                !.finalScriptWitness = <<p.inputs[i].partialSig.signature,
                                         p.inputs[i].partialSig.pubkey>>,
                !.partialSig = NoSig]]]

IsFinalized(p) ==
    /\ Len(p.inputs) > 0
    /\ \A i \in 1..Len(p.inputs) : p.inputs[i].finalScriptWitness # <<>>

\* Only the first output makes it into the extracted transaction.
ExtractPaymentOnly(p) ==
    [version |-> 2,
     ins |-> [i \in 1..Len(p.inputs) |->
                [hash |-> p.inputs[i].hash, index |-> p.inputs[i].index,
                 witness |-> p.inputs[i].finalScriptWitness]],
     outs |-> [i \in 1..1 |->
                [script |-> ToOutputScript(p.outputs[i].address),
                 value |-> p.outputs[i].value]],
     locktime |-> 0]

\* extractTransaction: the transaction itself, without the psbt's bookkeeping.
ExtractTransaction(p) ==
    [version |-> 2,
     ins |-> [i \in 1..Len(p.inputs) |->
                [hash |-> p.inputs[i].hash, index |-> p.inputs[i].index,
                 witness |-> p.inputs[i].finalScriptWitness]],
     outs |-> [i \in 1..Len(p.outputs) |->
                [script |-> ToOutputScript(p.outputs[i].address),
                 value |-> p.outputs[i].value]],
     locktime |-> 0]

\* toHex: the segwit wire layout, witnesses after the outputs.
ToHex(tx) ==
    [version |-> tx.version, flag |-> "0001",
     vin |-> [i \in 1..Len(tx.ins) |->
                [hash |-> tx.ins[i].hash, index |-> tx.ins[i].index, scriptSig |-> <<>>]],
     vout |-> tx.outs,
     witness |-> [i \in 1..Len(tx.ins) |-> tx.ins[i].witness],
     locktime |-> tx.locktime]

NoHex == [version |-> 0, flag |-> "", vin |-> <<>>, vout |-> <<>>,
          witness |-> <<>>, locktime |-> 0]

RECURSIVE SumValues(_)
SumValues(seq) == IF seq = <<>> THEN 0 ELSE Head(seq) + SumValues(Tail(seq))

InputValues(p) == [i \in 1..Len(p.inputs) |-> p.inputs[i].witnessUtxo.value]
OutputValues(p) == [i \in 1..Len(p.outputs) |-> p.outputs[i].value]

\* ------------------------------------------------------------ the pipeline
\* The run starts over after an error instead of ending.
FailAndRestart(e) ==
    /\ pc' = "Idle"
    /\ error' = e
    /\ report' = Report(e)

\* The catch of simulatePSBT: the run ends, the error is reported.
Fail(e) ==
    /\ pc' = "Failed"
    /\ error' = e
    /\ report' = Report(e)

Continue(stage) ==
    /\ pc' = stage
    /\ UNCHANGED <<error, report>>

Init ==
    /\ pc = "Idle"
    /\ keyPair = NoKeyPair
    /\ address = NoAddress
    /\ utxos = <<>>
    /\ utxo = Undefined
    /\ utxoTxHex = ""
    /\ psbt = NewPsbt
    /\ txHex = NoHex
    /\ txid = ""
    /\ requests = <<>>
    /\ error = NoError
    /\ report = NoReport

\* ECPair.fromWIF and the p2wpkh address of its public key.
LoadKeys ==
    /\ pc = "Idle"
    /\ keyPair' = FromWIF(WALLET.privateKey, network)
    /\ address' = P2wpkh(FromWIF(WALLET.privateKey, network).publicKey, network).address
    /\ Continue("KeysLoaded")
    /\ UNCHANGED <<utxos, utxo, utxoTxHex, psbt, txHex, txid, requests>>

\* const utxos = await getUTXOs(address)
FetchUTXOs ==
    /\ pc = "KeysLoaded"
    /\ \E reply \in UtxoReplies :
        LET r == getUTXOs(reply) IN
        /\ requests' = Append(requests, Request("GET", UtxoUrl(address), "", reply))
        /\ IF r.ok
           THEN utxos' = r.value /\ Continue("UTXOsFetched")
           ELSE UNCHANGED utxos /\ Fail(r.err)
    /\ UNCHANGED <<keyPair, address, utxo, utxoTxHex, psbt, txHex, txid>>

\* const utxo = utxos.find(...); if (!utxo) throw
SelectUTXO ==
    /\ pc = "UTXOsFetched"
    /\ utxo' = Find(utxos)
    /\ IF Find(utxos) = Undefined
       THEN Fail(ErrInsufficient)
       ELSE Continue("UTXOSelected")
    /\ UNCHANGED <<keyPair, address, utxos, utxoTxHex, psbt, txHex, txid, requests>>

\* A failed fetch is tried again instead of ending the run.
FetchSourceTxRetry ==
    /\ pc = "UTXOSelected"
    /\ \E reply \in HexReplies :
        /\ requests' = Append(requests, Request("GET", HexUrl(utxo.txid), "", reply))
        /\ IF reply.kind = "ok"
           THEN utxoTxHex' = reply.data /\ Continue("SourceTxFetched")
           ELSE UNCHANGED <<utxoTxHex, pc, error, report>>
    /\ UNCHANGED <<keyPair, address, utxos, utxo, psbt, txHex, txid>>

\* const utxoTxHex = await getTransactionHex(utxo.txid)
FetchSourceTx ==
    /\ pc = "UTXOSelected"
    /\ \E reply \in HexReplies :
        LET r == getTransactionHex(reply) IN
        /\ requests' = Append(requests, Request("GET", HexUrl(utxo.txid), "", reply))
        /\ IF r.ok
           THEN utxoTxHex' = r.value /\ Continue("SourceTxFetched")
           ELSE UNCHANGED utxoTxHex /\ Fail(r.err)
    /\ UNCHANGED <<keyPair, address, utxos, utxo, psbt, txHex, txid>>

\* The fee left out of the change.
ChangeNoFee(u) == u.value - AMOUNT_TO_SEND

\* utxo.value - AMOUNT_TO_SEND - FEE
Change(u) == u.value - AMOUNT_TO_SEND - FEE

\* The fetched raw transaction is attached to the input as nonWitnessUtxo.
BuildPsbtWithSourceTx(u, kp, addr) ==
    LET withInput ==
            [NewPsbt EXCEPT !.inputs = Append(@,
                [hash |-> u.txid, index |-> u.vout,
                 witnessUtxo |-> [script |-> P2wpkh(kp.publicKey, network).output,
                                  value |-> u.value],
                 nonWitnessUtxo |-> utxoTxHex,
                 partialSig |-> NoSig, finalScriptWitness |-> <<>>])]
        withPayment == AddOutput(withInput, DESTINATION_ADDRESS, AMOUNT_TO_SEND)
    IN  IF u.value - AMOUNT_TO_SEND - FEE < 0
        THEN Thrown(ErrNotEnough, withInput)
        ELSE IF u.value - AMOUNT_TO_SEND - FEE > 0
             THEN Returned(AddOutput(withPayment, addr, u.value - AMOUNT_TO_SEND - FEE))
             ELSE Returned(withPayment)

\* The change is paid to the destination instead of the sender's address.
BuildPsbtChangeToDest(u, kp, addr) ==
    LET withInput == AddInput(NewPsbt, u.txid, u.vout,
                              P2wpkh(kp.publicKey, network).output, u.value)
        withPayment == AddOutput(withInput, DESTINATION_ADDRESS, AMOUNT_TO_SEND)
    IN  IF u.value - AMOUNT_TO_SEND - FEE < 0
        THEN Thrown(ErrNotEnough, withInput)
        ELSE IF u.value - AMOUNT_TO_SEND - FEE > 0
             THEN Returned(AddOutput(withPayment, DESTINATION_ADDRESS,
                                     u.value - AMOUNT_TO_SEND - FEE))
             ELSE Returned(withPayment)

\* The change output is added for change >= 0, so also when it is zero.
BuildPsbtDustChange(u, kp, addr) ==
    LET withInput == AddInput(NewPsbt, u.txid, u.vout,
                              P2wpkh(kp.publicKey, network).output, u.value)
        withPayment == AddOutput(withInput, DESTINATION_ADDRESS, AMOUNT_TO_SEND)
    IN  IF u.value - AMOUNT_TO_SEND - FEE < 0
        THEN Thrown(ErrNotEnough, withInput)
        ELSE Returned(AddOutput(withPayment, addr, u.value - AMOUNT_TO_SEND - FEE))

\* new Psbt, addInput, the change check, addOutput and the change output.
\* The input is added before the check, so a failed check leaves it there.
BuildPsbt(u, kp, addr) ==
    LET withInput == AddInput(NewPsbt, u.txid, u.vout,
                              P2wpkh(kp.publicKey, network).output, u.value)
        withPayment == AddOutput(withInput, DESTINATION_ADDRESS, AMOUNT_TO_SEND)
    IN  IF Change(u) < 0
        THEN Thrown(ErrNotEnough, withInput)
        ELSE IF Change(u) > 0
             THEN Returned(AddOutput(withPayment, addr, Change(u)))
             ELSE Returned(withPayment)

Build ==
    /\ pc = "SourceTxFetched"
    /\ LET r == BuildPsbt(utxo, keyPair, address) IN
        /\ psbt' = r.value
        /\ IF r.ok THEN Continue("Built") ELSE Fail(r.err)
    /\ UNCHANGED <<keyPair, address, utxos, utxo, utxoTxHex, txHex, txid, requests>>

\* psbt.signInput(0, keyPair)
Sign ==
    /\ pc = "Built"
    /\ IF CanSign(psbt, 1, keyPair)
       THEN psbt' = SignInput(psbt, 1, keyPair) /\ Continue("Signed")
       ELSE UNCHANGED psbt /\ Fail(ErrSign)
    /\ UNCHANGED <<keyPair, address, utxos, utxo, utxoTxHex, txHex, txid, requests>>

\* psbt.finalizeAllInputs()
Finalize ==
    /\ pc = "Signed"
    /\ IF CanFinalize(psbt)
       THEN psbt' = FinalizeAllInputs(psbt) /\ Continue("Finalized")
       ELSE UNCHANGED psbt /\ Fail(ErrFinalize)
    /\ UNCHANGED <<keyPair, address, utxos, utxo, utxoTxHex, txHex, txid, requests>>

\* A failed request is posted again instead of ending the run.
BroadcastRetry ==
    /\ pc = "Finalized"
    /\ txHex' = ToHex(ExtractTransaction(psbt))
    /\ \E reply \in RelayReplies :
        /\ requests' = Append(requests,
                              Request("POST", RelayUrl, ToHex(ExtractTransaction(psbt)), reply))
        /\ IF reply.kind = "ok"
           THEN txid' = reply.data /\ Continue("Broadcast")
           ELSE UNCHANGED <<txid, pc, error, report>>
    /\ UNCHANGED <<keyPair, address, utxos, utxo, utxoTxHex, psbt>>

\* txHex = psbt.extractTransaction().toHex(); await broadcastTransaction(txHex)
\* extractTransaction throws on an input that is not finalized.
Broadcast ==
    /\ pc = "Finalized"
    /\ IF ~IsFinalized(psbt)
       THEN Fail(ErrNotFinalized) /\ UNCHANGED <<txHex, txid, requests>>
       ELSE /\ txHex' = ToHex(ExtractTransaction(psbt))
            /\ \E reply \in RelayReplies :
                LET r == broadcastTransaction(reply) IN
                /\ requests' = Append(requests,
                        Request("POST", RelayUrl, ToHex(ExtractTransaction(psbt)), reply))
                /\ IF r.ok
                   THEN txid' = r.value /\ Continue("Broadcast")
                   ELSE UNCHANGED txid /\ Fail(r.err)
    /\ UNCHANGED <<keyPair, address, utxos, utxo, utxoTxHex, psbt>>

\* The transaction id and the explorer link are printed; the run is over.
Finish ==
    /\ pc = "Broadcast"
    /\ Continue("Done")
    /\ UNCHANGED <<keyPair, address, utxos, utxo, utxoTxHex, psbt, txHex, txid, requests>>

Next ==
    \/ LoadKeys
    \/ FetchUTXOs
    \/ SelectUTXO
    \/ FetchSourceTx
    \/ Build
    \/ Sign
    \/ Finalize
    \/ Broadcast
    \/ Finish

Spec == Init /\ [][Next]_vars

\* The build stage on its own, given any UTXO as the selected one: the state
\* after the source transaction was fetched, then build to the end of the run.
InitBuild ==
    /\ pc = "SourceTxFetched"
    /\ keyPair = FromWIF(WALLET.privateKey, network)
    /\ address = P2wpkh(FromWIF(WALLET.privateKey, network).publicKey, network).address
    /\ utxo \in UtxoRecords
    /\ utxos = <<utxo>>
    /\ utxoTxHex \in RawHexes
    /\ psbt = NewPsbt
    /\ txHex = NoHex
    /\ txid = ""
    /\ requests = <<Request("GET", UtxoUrl(address), "", OkReply(utxos)),
                    Request("GET", HexUrl(utxo.txid), "", OkReply(utxoTxHex))>>
    /\ error = NoError
    /\ report = NoReport

NextBuild ==
    \/ Build
    \/ Sign
    \/ Finalize
    \/ Broadcast
    \/ Finish

SpecBuild == InitBuild /\ [][NextBuild]_vars


\* ================================================================== claims
MinimumValue == AMOUNT_TO_SEND + FEE

\* Selection has run: the array was returned and the run is past the find.
SelectionDone == utxos # <<>> /\ pc # "UTXOsFetched"

Posts == {i \in DOMAIN requests : requests[i].method = "POST"}

\* C1: once selection has run on the returned array, the selected UTXO is
\* the first element whose value is >= AMOUNT_TO_SEND + FEE; one is selected
\* exactly when some element qualifies, and otherwise the run has failed with
\* the insufficient-balance error and the psbt has no input and no output.
C1_FirstSufficientSelected ==
    SelectionDone =>
        /\ (utxo # Undefined) <=> (\E i \in DOMAIN utxos : utxos[i].value >= MinimumValue)
        /\ utxo # Undefined =>
              \E i \in DOMAIN utxos :
                  /\ utxos[i] = utxo
                  /\ utxos[i].value >= MinimumValue
                  /\ \A j \in 1..(i - 1) : utxos[j].value < MinimumValue
        /\ utxo = Undefined =>
              /\ pc = "Failed"
              /\ error = ErrInsufficient
              /\ psbt.inputs = <<>> /\ psbt.outputs = <<>>
              /\ Len(requests) = 1

\* The first element is too small, the second is selected.
C1_Witness ==
    /\ pc = "UTXOSelected"
    /\ Len(utxos) = 2
    /\ utxos[1].value < MinimumValue
    /\ utxo = utxos[2]

\* C2: once build has run on a UTXO of value v, with m = AMOUNT_TO_SEND + FEE:
\* v > m gives two outputs, the second of exactly v - m; v = m gives the
\* single output of AMOUNT_TO_SEND; v < m fails with the not-enough error and
\* no output.
C2_ChangeOutput ==
    pc # "SourceTxFetched" =>
        /\ utxo.value > MinimumValue =>
              /\ error # ErrNotEnough
              /\ Len(psbt.outputs) = 2
              /\ psbt.outputs[1].value = AMOUNT_TO_SEND
              /\ psbt.outputs[2].value = utxo.value - MinimumValue
        /\ utxo.value = MinimumValue =>
              /\ error # ErrNotEnough
              /\ Len(psbt.outputs) = 1
              /\ psbt.outputs[1].value = AMOUNT_TO_SEND
        /\ utxo.value < MinimumValue =>
              /\ pc = "Failed"
              /\ error = ErrNotEnough
              /\ psbt.outputs = <<>>
              /\ Posts = {}

\* v = 5000: change 3800, two outputs.
C2_Witness ==
    /\ pc = "Built"
    /\ utxo.value = 5000
    /\ Len(psbt.outputs) = 2
    /\ psbt.outputs[2].value = 3800

\* The transaction has been built: the outputs are in place.
HasBuilt == Len(psbt.outputs) >= 1

\* C3: from the built transaction on, the output values plus FEE equal the
\* input values, in the psbt and in whatever was posted to the relay.
C3_ValueConservation ==
    /\ HasBuilt =>
          SumValues(OutputValues(psbt)) + FEE = SumValues(InputValues(psbt))
    /\ \A i \in Posts :
          SumValues([k \in DOMAIN requests[i].body.vout |->
                        requests[i].body.vout[k].value]) + FEE = utxo.value

\* A broadcast transaction with a change output.
C3_Witness ==
    /\ pc = "Broadcast"
    /\ Posts # {}
    /\ Len(psbt.outputs) = 2
    /\ SumValues(InputValues(psbt)) = 5000


StageOrder == <<"Idle", "KeysLoaded", "UTXOsFetched", "UTXOSelected", "SourceTxFetched",
                "Built", "Signed", "Finalized", "Broadcast", "Done">>

\* C4: every change of stage goes to the next stage of the order Idle,
\* KeysLoaded, UTXOsFetched, UTXOSelected, SourceTxFetched, Built, Signed,
\* Finalized, Broadcast, Done, or to Failed; no stage is skipped or revisited.
C4_StageOrder ==
    [][pc' # pc =>
          \/ pc' = "Failed"
          \/ \E i \in 1..(Len(StageOrder) - 1) :
                pc = StageOrder[i] /\ pc' = StageOrder[i + 1]]_vars

\* A run that went through every stage.
C4_Witness == pc = "Done" /\ Len(requests) = 3

SenderSignature ==
    <<<<"sig", WALLET.privateKey, SigHash(psbt, 1)>>, <<"pub", WALLET.privateKey>>>>

\* C5: at most one POST goes to the relay, and only as the last request of a
\* run whose single input carries the sender's signature as its final
\* witness; a run that has not reached the broadcast, or failed before it,
\* has sent nothing to the relay.
C5_BroadcastOnlyFinalized ==
    /\ Cardinality(Posts) <= 1
    /\ \A i \in Posts :
          /\ i = Len(requests)
          /\ pc \in {"Broadcast", "Done", "Failed"}
          /\ Len(psbt.inputs) = 1
          /\ psbt.inputs[1].finalScriptWitness = SenderSignature
          /\ requests[i].body.witness = <<SenderSignature>>
    /\ pc \in {"Idle", "KeysLoaded", "UTXOsFetched", "UTXOSelected",
               "SourceTxFetched", "Built", "Signed", "Finalized"} => Posts = {}
    /\ (pc = "Failed" /\ error.message[1] # "Failed to broadcast transaction") =>
          Posts = {}

\* The run failed at the source-transaction fetch: nothing went to the relay.
C5_Witness ==
    /\ pc = "Failed"
    /\ error.message[1] = "Failed to fetch transaction hex for UTXO"
    /\ Len(requests) = 2
    /\ Posts = {}

UtxoCalls == {i \in DOMAIN requests : requests[i].method = "GET" /\ requests[i].url[1] = "address"}
HexCalls == {i \in DOMAIN requests : requests[i].method = "GET" /\ requests[i].url[1] = "tx"}

\* C6: each of the three network calls is made at most once, a call that
\* fails is the last one and leaves the run Failed, and from Failed nothing
\* changes any more.
C6_NoRetry ==
    /\ [](/\ Cardinality(UtxoCalls) <= 1
          /\ Cardinality(HexCalls) <= 1
          /\ Cardinality(Posts) <= 1
          /\ \A i \in DOMAIN requests :
                requests[i].reply.kind # "ok" => pc = "Failed" /\ i = Len(requests))
    /\ [][pc = "Failed" => UNCHANGED vars]_vars

\* The second network call got no answer and the run is over.
C6_Witness ==
    /\ pc = "Failed"
    /\ Len(requests) = 2
    /\ requests[2].reply.kind = "transport"

\* The reason is in the error's message or response, or in what is reported.
Carries(reason) ==
    \/ \E k \in DOMAIN error.message : error.message[k] = reason
    \/ error.response.present /\ error.response.data = reason
    \/ \E k \in DOMAIN report.message : report.message[k] = reason
    \/ report.shown = "response" /\ report.data = reason

\* C7: when the relay rejects the POST with a reason, the run is Failed with
\* an error that carries that reason, and there is no second POST.
C7_RejectionReasonCarried ==
    \A i \in Posts :
        requests[i].reply.kind = "http" =>
            /\ pc = "Failed"
            /\ Cardinality(Posts) = 1
            /\ Carries(requests[i].reply.data)

\* C8: when the service answers the UTXO request with an empty array, the run
\* is Failed with the no-UTXOs error, which no failed request produces, and
\* nothing was selected, no second request was made and the psbt is empty.
C8_EmptyUtxoResult ==
    (/\ Len(requests) >= 1
     /\ requests[1].reply.kind = "ok"
     /\ requests[1].reply.data = <<>>) =>
        /\ pc = "Failed"
        /\ error.message = <<"Failed to fetch UTXOs", "No UTXOs found for this address">>
        /\ \A reply \in UtxoReplies :
              reply.kind # "ok" => error # WrapError("Failed to fetch UTXOs", AxiosError(reply))
        /\ error # ErrInsufficient
        /\ utxos = <<>> /\ utxo = Undefined
        /\ Len(requests) = 1
        /\ psbt.inputs = <<>> /\ psbt.outputs = <<>>

\* The service answered with an empty array.
C8_Witness ==
    /\ pc = "Failed"
    /\ Len(requests) = 1
    /\ requests[1].reply.kind = "ok"
    /\ requests[1].reply.data = <<>>

SenderProgram == <<"hash160", <<"pub", WALLET.privateKey>>>>

\* C9: a built transaction has exactly one input, with the selected UTXO's
\* txid, vout and value and the sender's p2wpkh script; its first output pays
\* AMOUNT_TO_SEND to the destination; it has at most two outputs and the
\* second pays the sender's derived address.
C9_TransactionShape ==
    HasBuilt =>
        /\ Len(psbt.inputs) = 1
        /\ \E i \in DOMAIN utxos : utxos[i] = utxo
        /\ psbt.inputs[1].hash = utxo.txid
        /\ psbt.inputs[1].index = utxo.vout
        /\ psbt.inputs[1].witnessUtxo.value = utxo.value
        /\ psbt.inputs[1].witnessUtxo.script = <<"OP_0", SenderProgram>>
        /\ psbt.outputs[1] = [address |-> DESTINATION_ADDRESS, value |-> AMOUNT_TO_SEND]
        /\ Len(psbt.outputs) <= 2
        /\ Len(psbt.outputs) = 2 =>
              /\ psbt.outputs[2].address = [hrp |-> "tb", version |-> 0, program |-> SenderProgram]
              /\ psbt.outputs[2].address = address

\* A built transaction with a change output.
C9_Witness ==
    /\ pc = "Built"
    /\ Len(psbt.outputs) = 2
    /\ psbt.outputs[2].address = address

\* What of the psbt the transaction consists of.
TxContent(p) ==
    <<[i \in DOMAIN p.inputs |->
          <<p.inputs[i].hash, p.inputs[i].index, p.inputs[i].witnessUtxo.value>>],
      p.outputs>>

\* C10: once the inputs are finalized the psbt no longer changes, from the
\* built transaction on its inputs, outputs and amounts stay as built, and the
\* body posted to the relay has exactly the finalized transaction's inputs,
\* witnesses, outputs and amounts.
C10_ImmutableAfterFinalize ==
    /\ [][IsFinalized(psbt) => psbt' = psbt]_vars
    /\ [][HasBuilt => TxContent(psbt') = TxContent(psbt)]_vars
    /\ [](\A i \in Posts :
            /\ IsFinalized(psbt)
            /\ requests[i].body = txHex
            /\ requests[i].body.vin =
                  [k \in DOMAIN psbt.inputs |->
                      [hash |-> psbt.inputs[k].hash, index |-> psbt.inputs[k].index,
                       scriptSig |-> <<>>]]
            /\ requests[i].body.witness =
                  [k \in DOMAIN psbt.inputs |-> psbt.inputs[k].finalScriptWitness]
            /\ requests[i].body.vout =
                  [k \in DOMAIN psbt.outputs |->
                      [script |-> <<"OP_0", psbt.outputs[k].address.program>>,
                       value |-> psbt.outputs[k].value]])

\* A finalized two-output transaction was posted and accepted.
C10_Witness ==
    /\ pc = "Done"
    /\ Posts # {}
    /\ IsFinalized(psbt)
    /\ Len(txHex.vout) = 2


\* C11: the change < 0 check of the build stage never fires: no run ends with
\* the not-enough error, whenever the psbt has its input the selected UTXO's
\* value minus AMOUNT_TO_SEND minus FEE is >= 0, and a run that failed for
\* insufficient funds failed at selection, with no raw-transaction request
\* made and no input added.
C11_ChangeCheckNeverFires ==
    /\ error # ErrNotEnough
    /\ Len(psbt.inputs) >= 1 => utxo.value - AMOUNT_TO_SEND - FEE >= 0
    /\ (pc = "Failed" /\ error \in {ErrInsufficient, ErrNotEnough}) =>
          /\ error = ErrInsufficient
          /\ utxo = Undefined
          /\ \A i \in DOMAIN utxos : utxos[i].value < MinimumValue
          /\ HexCalls = {}
          /\ psbt.inputs = <<>>

\* The input was created from a UTXO of exactly AMOUNT_TO_SEND + FEE: change 0.
C11_Witness ==
    /\ pc = "Built"
    /\ Len(psbt.inputs) = 1
    /\ utxo.value = MinimumValue
    /\ \E i \in DOMAIN utxos : utxos[i].value = MinimumValue - 1


\* The transaction the UTXO array and the constants alone determine.
FirstSufficient(seq) ==
    seq[CHOOSE i \in DOMAIN seq :
            /\ seq[i].value >= MinimumValue
            /\ \A j \in 1..(i - 1) : seq[j].value < MinimumValue]

DeterminedInput(u) ==
    [hash |-> u.txid, index |-> u.vout,
     witnessUtxo |-> [script |-> <<"OP_0", SenderProgram>>, value |-> u.value],
     partialSig |-> NoSig, finalScriptWitness |-> <<>>]

DeterminedOutputs(u) ==
    <<[address |-> DESTINATION_ADDRESS, value |-> AMOUNT_TO_SEND]>>
    \o (IF u.value > MinimumValue
        THEN <<[address |-> [hrp |-> "tb", version |-> 0, program |-> SenderProgram],
                value |-> u.value - MinimumValue]>>
        ELSE <<>>)

\* C12: whatever the raw-transaction request answered, the built psbt and the
\* body posted to the relay have the inputs, outputs and amounts that the
\* UTXO array and the constants alone determine, so two runs that differ only
\* in that answer build and post the same; and when that request fails the
\* run is Failed with nothing built and nothing posted.
C12_SourceTxNotUsed ==
    /\ HasBuilt =>
          /\ Len(psbt.inputs) = 1
          /\ [psbt.inputs[1] EXCEPT !.partialSig = NoSig, !.finalScriptWitness = <<>>]
                = DeterminedInput(FirstSufficient(utxos))
          /\ psbt.outputs = DeterminedOutputs(FirstSufficient(utxos))
    /\ \A i \in Posts :
          /\ requests[i].body.vin =
                <<[hash |-> FirstSufficient(utxos).txid,
                   index |-> FirstSufficient(utxos).vout, scriptSig |-> <<>>]>>
          /\ requests[i].body.vout =
                [k \in DOMAIN DeterminedOutputs(FirstSufficient(utxos)) |->
                    [script |-> <<"OP_0",
                                  DeterminedOutputs(FirstSufficient(utxos))[k].address.program>>,
                     value |-> DeterminedOutputs(FirstSufficient(utxos))[k].value]]
    /\ (\E i \in HexCalls : requests[i].reply.kind # "ok") =>
          /\ pc = "Failed"
          /\ error.message[1] = "Failed to fetch transaction hex for UTXO"
          /\ psbt.inputs = <<>> /\ psbt.outputs = <<>>
          /\ Posts = {}

\* A transaction was posted in a run whose raw-transaction request answered
\* the second of the possible raw transactions.
C12_Witness ==
    /\ pc = "Broadcast"
    /\ utxoTxHex = "rawHexB"
    /\ Posts # {}
    /\ Len(psbt.outputs) = 2

====
